---- MODULE Spec2Model ----
(***************************************************************************)
(* Single-target detection of echopype: detect_esp3 (variant A) and        *)
(* detect_matecho (variant B).                                             *)
(*                                                                         *)
(* Units of the model: levels in dB (integers), lengths in millimetres,    *)
(* times in microseconds, sound speed in m/s.  The normalised pulse-length *)
(* parameters (MinNormPL, MaxNormPL, MinEchoLength, MaxEchoLength,         *)
(* MinEchoSpace) are held in tenths, block_len in halves of a cell, so     *)
(* that fractional values of the floats of the code are represented.       *)
(* log10 is tabulated to the nearest dB on a grid of 125 mm.               *)
(***************************************************************************)
EXTENDS Integers, Sequences, FiniteSets, TLC

VARIABLES
    variant,     \* entry point called: "esp3" or "matecho"
    p,           \* merged parameters (defaults overridden by params)
    ds,          \* the dataset: sizes, bottom line, heave
    pc,          \* position in the entry point
    prep,        \* values computed before the block loop
    ui,          \* block loop counter
    Sv,          \* source columns of the block being processed (read-only)
    TS,          \* block-local working copy (masked): TS of detect_esp3,
                 \* ts of detect_matecho
    tsu,         \* detect_matecho: block-local tsu (masked)
    Plike,       \* detect_matecho: block-local Plike (masked)
    out,         \* the st_struct of parallel lists
    nb_valid_targets,
    ref,         \* st_struct of the same dataset run one ping per block
    visited      \* ping ranges <<start, stop>> of the iterations so far

vars == <<variant, p, ds, pc, prep, ui, Sv, TS, tsu, Plike, out, nb_valid_targets, ref, visited>>

----------------------------------------------------------------------------
(* Bounds of the model *)

MaxPings == 3
NumSamplesA == 6
NumSamplesB == 12

(* Program constants *)

Sentinel == -999
NaN == 99999
dec_tir == 8
NoLast == -1000000000

----------------------------------------------------------------------------
(* Arithmetic of the Python expressions *)

Min(S) == CHOOSE x \in S : \A y \in S : x <= y
Max(S) == CHOOSE x \in S : \A y \in S : x >= y

\* max(a, b) and min(a, b)
Max2(a, b) == IF a >= b THEN a ELSE b
Min2(a, b) == IF a <= b THEN a ELSE b

IsFinite(x) == x # NaN

\* math.ceil(n / d), d > 0
Ceil(n, d) == -((-n) \div d)

\* int(n / d): truncation toward zero, d > 0
Trunc(n, d) == IF n >= 0 THEN n \div d ELSE -((-n) \div d)

\* round(n / d) of Python 3: to nearest, ties to even; n >= 0, d > 0
Round(n, d) ==
    LET q == n \div d
        r == n % d
    IN  IF 2 * r < d THEN q
        ELSE IF 2 * r > d THEN q + 1
        ELSE IF q % 2 = 0 THEN q ELSE q + 1

\* log10 tables, entry j is for j * 125 mm
Table10 == <<-9, -6, -4, -3, -2, -1, -1, 0, 1, 1, 1, 2, 2, 2, 3, 3, 3, 4, 4, 4, 4, 4, 5, 5, 5, 5, 5, 5, 6, 6, 6, 6, 6, 6, 6, 7, 7, 7, 7, 7, 7, 7, 7, 7, 8, 8, 8, 8, 8, 8, 8, 8, 8, 8, 8, 8>>
Table20 == <<-18, -12, -9, -6, -4, -2, -1, 0, 1, 2, 3, 4, 4, 5, 5, 6, 7, 7, 8, 8, 8, 9, 9, 10, 10, 10, 11, 11, 11, 11, 12, 12, 12, 13, 13, 13, 13, 14, 14, 14, 14, 14, 15, 15, 15, 15, 15, 16, 16, 16, 16, 16, 16, 17, 17, 17>>
Table40 == <<-36, -24, -17, -12, -8, -5, -2, 0, 2, 4, 6, 7, 8, 10, 11, 12, 13, 14, 15, 16, 17, 18, 18, 19, 20, 20, 21, 22, 22, 23, 24, 24, 25, 25, 26, 26, 27, 27, 28, 28, 28, 29, 29, 30, 30, 30, 31, 31, 31, 32, 32, 33, 33, 33, 33, 34>>

GridIndex(r) == Max2(1, Min2(Len(Table40), (r + 62) \div 125))

\* 10 * log10(r), 20 * log10(r), 40 * log10(r) for r > 0 given in mm
Log10x10(r) == Table10[GridIndex(r)]
Log10x20(r) == Table20[GridIndex(r)]
Log10x40(r) == Table40[GridIndex(r)]

----------------------------------------------------------------------------
(* Parameters *)

\* DEFAULTS of detect_esp3, with the optional keys Np (0: not given) and
\* pulse_length at the values p.get(...) falls back to
DEFAULTS ==
    [SoundSpeed |-> 1500, TS_threshold |-> -50, PLDL |-> 6, MinNormPL |-> 7,
     MaxNormPL |-> 15, DataType |-> "CW", block_len |-> 6666667,
     Np |-> 0, pulse_length |-> 1000]

\* MATECHO_DEFAULTS of detect_matecho (beam pattern and Sa terms at their
\* defaults of zero correction)
MATECHO_DEFAULTS ==
    [SoundSpeed |-> 1500, TS_threshold |-> -50, MaxAngleOneWayCompression |-> 6,
     MinEchoLength |-> 8, MaxEchoLength |-> 18, MinEchoSpace |-> 10,
     MinEchoDepthM |-> 3000, MaxEchoDepthM |-> 38000, tvg_start_sample |-> 3,
     block_len |-> 6666667, psi_two_way |-> 0, Sa_correction |-> 0,
     Sa_EK80_nominal |-> 0, Np |-> 0, pulse_length |-> 1000]

\* _validate_params: TRUE when no ValueError is raised
validate_params(q) ==
    /\ q.DataType = "CW"
    /\ -120 <= q.TS_threshold /\ q.TS_threshold <= -20
    /\ 1 <= q.PLDL /\ q.PLDL <= 30
    /\ 0 <= q.MinNormPL /\ q.MinNormPL <= 100
    /\ 0 <= q.MaxNormPL /\ q.MaxNormPL <= 100
    /\ ~(q.block_len <= 0)

----------------------------------------------------------------------------
(* The dataset *)

\* ds["depth"]: depth of sample i of ping ip, strictly increasing in i
Depth(ip, i) == 250 * (i + 4)

\* times = Sv["ping_time"].values: the time stamp of ping ip
times(ip) == ip

\* tolerance of the alignment of a navigation field to the pings, in ms
Tolerance == 500

\* time of ping ip in ms (one ping per second)
PingTimeMs(ip) == 1000 * times(ip)

\* a navigation field of the dataset: absent, a series on a time dimension
\* (samples [t, v], t in ms), or an array without a time dimension
NoField == [kind |-> "absent", samples |-> <<>>]

\* _pull_nav / _fallback_1d_aligned found no usable field
None == <<>>

\* da.reindex(ping_time=..., method="nearest", tolerance=500 ms) at ping ip:
\* the value of the nearest sample (of the later one on a tie) when it lies
\* within the tolerance, NaN otherwise
Reindex(samples, ip) ==
    LET pt       == PingTimeMs(ip)
        gap(j)   == IF samples[j].t >= pt THEN samples[j].t - pt ELSE pt - samples[j].t
        nearest  == {j \in DOMAIN samples : \A h \in DOMAIN samples : gap(j) <= gap(h)}
        j0       == CHOOSE j \in nearest : \A h \in nearest : samples[j].t >= samples[h].t
    IN  IF gap(j0) <= Tolerance THEN samples[j0].v ELSE NaN

\* _pull_nav of detect_esp3 and _fallback_1d_aligned of detect_matecho: the
\* field aligned to the n pings, or None
pull_nav(src, n) ==
    IF src.kind = "timed"
    THEN [ip \in 0..(n - 1) |-> Reindex(src.samples, ip)]
    ELSE IF src.kind = "plain" /\ Len(src.samples) = n
    THEN [ip \in 0..(n - 1) |-> src.samples[ip + 1].v]
    ELSE None

\* heave = heave_arr if heave_arr is not None else zeros
fallback(a, n) == IF a # None THEN a ELSE [ip \in 0..(n - 1) |-> 0]

\* first sample of ping ip at or under the bottom, else the last sample
IdxBot(d, ip) ==
    LET under == {i \in 0..(d.nb_samples_tot - 1) :
                    IsFinite(d.bottom[ip]) /\ Depth(ip, i) >= d.bottom[ip]}
    IN  IF under # {} THEN Min(under) ELSE d.nb_samples_tot - 1

\* idx_r_tot.size after the optional global bottom crop
IdxRTotSize(d) ==
    IF d.hasBottom
    THEN Max({IdxBot(d, ip) : ip \in 0..(d.nb_pings_tot - 1)}) + 1
    ELSE d.nb_samples_tot

\* dstep: median depth step
dstep == Depth(0, 1) - Depth(0, 0)

\* T / dt with dt = 2 * dstep / c if dstep > 0 else 1e-4, rounded
RoundTOverDt(q) ==
    IF dstep > 0 THEN Round(q.pulse_length * q.SoundSpeed, 2000 * dstep)
    ELSE Round(q.pulse_length, 100)

\* block_size: min(ceil(block_len / cells_per_ping), number of pings)
BlockSize(q, d) ==
    LET cells_per_ping == Max2(1, IdxRTotSize(d))
    IN  Min2(Ceil(q.block_len, 2 * cells_per_ping), d.nb_pings_tot)

\* num_ite of detect_esp3
NumIteA(q, d) ==
    IF BlockSize(q, d) > 0 THEN Ceil(d.nb_pings_tot, BlockSize(q, d)) ELSE 0

\* num_ite of detect_matecho
NumIteB(q, d) == Ceil(d.nb_pings_tot, Max2(BlockSize(q, d), 1))

\* Np of detect_esp3
NpA(q) == IF q.Np > 2 THEN q.Np ELSE Max2(3, RoundTOverDt(q))

\* min_len of detect_esp3
MinLen(q) == Max2(1, Trunc(NpA(q) * q.MinNormPL, 10))

\* max_len of detect_esp3
MaxLen(q) == Max2(1, Ceil(NpA(q) * q.MaxNormPL, 10))

\* NechP of detect_matecho
NechP(q) == Max2(3, RoundTOverDt(q))

\* idx_pings_tot[start:stop] of Python for any integers start, stop
PySlice(n, start, stop) ==
    LET norm(x) == IF x < 0 THEN Max2(x + n, 0) ELSE Min2(x, n)
    IN  {i \in 0..(n - 1) : norm(start) <= i /\ i < norm(stop)}

\* the st_struct returned by init_st_struct, without nb_valid_targets
init_st_struct ==
    [TS_comp |-> <<>>, TS_uncomp |-> <<>>, Target_range |-> <<>>,
     Target_range_disp |-> <<>>, Target_range_min |-> <<>>,
     Target_range_max |-> <<>>, idx_r |-> <<>>,
     StandDev_Angles_Minor_Axis |-> <<>>, StandDev_Angles_Major_Axis |-> <<>>,
     Angle_minor_axis |-> <<>>, Angle_major_axis |-> <<>>,
     Ping_number |-> <<>>, Time |-> <<>>, idx_target_lin |-> <<>>,
     pulse_env_before_lin |-> <<>>, pulse_env_after_lin |-> <<>>,
     PulseLength_Normalized_PLDL |-> <<>>, Transmitted_pulse_length |-> <<>>,
     Heave |-> <<>>, Roll |-> <<>>, Pitch |-> <<>>, Heading |-> <<>>,
     Dist |-> <<>>]

\* insert at the front instead of append
AppendDet_Front(o, det) ==
    [f \in DOMAIN o |-> IF f \in DOMAIN det THEN <<det[f]>> \o o[f] ELSE o[f]]

\* the out[...].append(...) lines of one detection: det maps the fields
\* that are appended to the values appended
AppendDet(o, det) ==
    [f \in DOMAIN o |-> IF f \in DOMAIN det THEN Append(o[f], det[f]) ELSE o[f]]

RECURSIVE AppendAll(_, _)
AppendAll(o, dets) ==
    IF dets = <<>> THEN o ELSE AppendAll(AppendDet(o, Head(dets)), Tail(dets))

----------------------------------------------------------------------------
(* detect_esp3: one iteration of the block loop *)

\* idx_r.size of a block: idx_r_tot cropped to the deepest bottom index of
\* the pings of the block (inclusive)
BlockRows(d, nrtot, pings) ==
    IF d.hasBottom /\ pings # {}
    THEN Min2(nrtot, Max({IdxBot(d, ip) : ip \in pings}) + 1)
    ELSE nrtot

\* no cell masked
UnderBottom_Off(d, ip, i) == FALSE

\* mask |= DEP >= bcol
UnderBottom(d, ip, i) ==
    d.hasBottom /\ IsFinite(d.bottom[ip]) /\ Depth(ip, i) >= d.bottom[ip]

\* np.asarray / .values / .copy(): the array holding f[0], ..., f[n - 1]
RECURSIVE AsArray(_, _)
AsArray(f, n) ==
    IF n <= 0 THEN <<>> ELSE AsArray(f, n - 1) @@ ((n - 1) :> f[n - 1])

\* the two-dimensional array with the columns g[ip] of the pings of a block
RECURSIVE AsColumns(_, _)
AsColumns(g, pings) ==
    IF pings = {} THEN <<>>
    ELSE LET ip == Min(pings)
         IN  (ip :> g[ip]) @@ AsColumns(g, pings \ {ip})

\* TS = Sv[block].copy(); TS[mask] = -999.0
MaskedTS(d, pings, sv, nrows) ==
    AsColumns([ip \in pings |->
        AsArray([i \in 0..(nrows - 1) |->
            IF UnderBottom(d, ip, i) THEN Sentinel ELSE sv[ip][i]], nrows)], pings)

\* rows with some unmasked cell: (TS > -999.0).any(axis=1)
ValidRows(m, nrows) ==
    {i \in 0..(nrows - 1) : \E ip \in DOMAIN m : IsFinite(m[ip][i]) /\ m[ip][i] > Sentinel}

\* number of rows left after the trailing all-masked rows are removed
TrimmedRows(m, nrows) == Max(ValidRows(m, nrows)) + 1

\* TS = TS[0 : last_row + 1, :]
TrimTS(m, nrows) ==
    AsColumns([ip \in DOMAIN m |-> AsArray(m[ip], TrimmedRows(m, nrows))], DOMAIN m)

\* local maxima strict on both sides
CandA_Strict(z, n) ==
    {k \in 1..(n - 2) :
        /\ IsFinite(z[k]) /\ z[k] > Sentinel
        /\ IsFinite(z[k - 1]) /\ z[k] > z[k - 1]
        /\ IsFinite(z[k + 1]) /\ z[k] > z[k + 1]}

\* cand: local maxima (strict > prev, >= next) among unmasked rows, first
\* and last row excluded
CandA(z, n) ==
    {k \in 1..(n - 2) :
        /\ IsFinite(z[k]) /\ z[k] > Sentinel
        /\ IsFinite(z[k - 1]) /\ z[k] > z[k - 1]
        /\ IsFinite(z[k + 1]) /\ z[k] >= z[k + 1]}

\* every candidate kept, whatever its distance to the last one kept
RECURSIVE KeepA_All(_, _, _)
KeepA_All(cand, last, np) ==
    IF cand = {} THEN <<>>
    ELSE <<Min(cand)>> \o KeepA_All(cand \ {Min(cand)}, last, np)

\* keep: greedy minimum separation of Np samples, scanning left to right
RECURSIVE KeepA(_, _, _)
KeepA(cand, last, np) ==
    IF cand = {} THEN <<>>
    ELSE LET k == Min(cand)
         IN  IF k - last >= np
             THEN <<k>> \o KeepA(cand \ {k}, k, np)
             ELSE KeepA(cand \ {k}, last, np)

\* while i >= 0 and left < max_len and isfinite(z[i]) and z[i] >= thr
RECURSIVE ExpandLeft(_, _, _, _, _)
ExpandLeft(z, i, left, thr, maxlen) ==
    IF i >= 0 /\ left < maxlen /\ IsFinite(z[i]) /\ z[i] >= thr
    THEN ExpandLeft(z, i - 1, left + 1, thr, maxlen)
    ELSE left

RECURSIVE ExpandRight(_, _, _, _, _, _)
\* the expansion without the test against thr
ExpandRight_NoThr(z, n, i, right, thr, maxlen) ==
    IF i < n /\ right < maxlen /\ IsFinite(z[i])
    THEN ExpandRight(z, n, i + 1, right + 1, thr, maxlen)
    ELSE right

\* while i < z.size and right < max_len and isfinite(z[i]) and z[i] >= thr
ExpandRight(z, n, i, right, thr, maxlen) ==
    IF i < n /\ right < maxlen /\ IsFinite(z[i]) /\ z[i] >= thr
    THEN ExpandRight(z, n, i + 1, right + 1, thr, maxlen)
    ELSE right

\* c * T / 4 in mm
QuarterPulse(q) == (q.SoundSpeed * q.pulse_length) \div 4000

\* TVG at the peak: 40 log10(r_eff) + 2 alpha r_eff
TVGPeak(d, r_eff) == Log10x40(r_eff) + (2 * d.alpha * r_eff) \div 1000

\* the flattened index over the n rows of the block
LinIdx_Block(d, ip, k, n) == ip * n + k

\* idx_target_lin of sample k (idx_r[k] = k) of ping ip in a block of n rows:
\* idx_pings[jp] * nb_samples_tot + idx_r[k], nb_samples_tot the sample count
\* of the full frame
LinIdx(d, ip, k, n) == ip * d.nb_samples_tot + k

\* the gate without its lower bound
PlenOkA_NoMin(plen, minlen, maxlen) == ~(plen > maxlen)

\* pulse-length gate of detect_esp3: TRUE when the candidate goes on
PlenOkA(plen, minlen, maxlen) == ~(plen < minlen \/ plen > maxlen)

\* the gate left out
CompOkA_Off(tscomp, thr) == TRUE

\* final threshold gate of detect_esp3: TRUE when the candidate goes on
CompOkA(tscomp, thr) == ~(tscomp <= thr)

\* the body of "for k in keep": the fields appended for candidate k of
\* ping ip, or nothing
ScreenA(z, n, ip, k, q, d) ==
    LET pk    == z[k]
        thr   == pk - q.PLDL
        left  == ExpandLeft(z, k - 1, 0, thr, MaxLen(q))
        right == ExpandRight(z, n, k + 1, 0, thr, MaxLen(q))
        plen  == 1 + left + right
        seg   == {Depth(ip, i) : i \in (k - left)..(k + right)}
        r_min == Min(seg)
        r_max == Max(seg)
        r_peak == Depth(ip, k)
        r_eff_peak == r_peak - QuarterPulse(q)
        TS_uncomp == pk + TVGPeak(d, r_eff_peak)
        TS_comp == TS_uncomp
    IN  IF ~IsFinite(pk) \/ pk <= q.TS_threshold THEN <<>>
        ELSE IF ~PlenOkA(plen, MinLen(q), MaxLen(q)) THEN <<>>
        ELSE IF seg = {} THEN <<>>
        ELSE IF r_eff_peak <= 0 THEN <<>>
        ELSE IF ~CompOkA(TS_comp, q.TS_threshold) THEN <<>>
        ELSE << [TS_comp |-> TS_comp, TS_uncomp |-> TS_uncomp,
                 Target_range |-> r_peak,
                 Target_range_disp |-> r_peak + QuarterPulse(q),
                 Target_range_min |-> r_min, Target_range_max |-> r_max,
                 idx_r |-> k, Ping_number |-> ip, Time |-> times(ip),
                 idx_target_lin |-> LinIdx(d, ip, k, n),
                 pulse_env_before_lin |-> left, pulse_env_after_lin |-> right,
                 PulseLength_Normalized_PLDL |-> <<plen, NpA(q)>>,
                 Transmitted_pulse_length |-> plen,
                 StandDev_Angles_Minor_Axis |-> NaN,
                 StandDev_Angles_Major_Axis |-> NaN] >>

RECURSIVE ScreenAllA(_, _, _, _, _, _)
ScreenAllA(z, n, ip, keep, q, d) ==
    IF keep = <<>> THEN <<>>
    ELSE ScreenA(z, n, ip, Head(keep), q, d) \o ScreenAllA(z, n, ip, Tail(keep), q, d)

\* the body of "for jp in range(nb_pings)" for the column z of ping ip
PingA(z, n, ip, q, d) ==
    IF n < 3 THEN <<>>
    ELSE ScreenAllA(z, n, ip, KeepA(CandA(z, n), NoLast, NpA(q)), q, d)

RECURSIVE PingsA(_, _, _, _, _)
\* the ping loop left at the first ping that records nothing
PingsA_StopAtEmpty(ts, n, pings, q, d) ==
    IF pings = {} THEN <<>>
    ELSE LET ip == Min(pings)
         IN  IF PingA(ts[ip], n, ip, q, d) = <<>> THEN <<>>
             ELSE PingA(ts[ip], n, ip, q, d) \o PingsA(ts, n, pings \ {ip}, q, d)

\* "for jp in range(nb_pings)": the pings of the block in order
PingsA(ts, n, pings, q, d) ==
    IF pings = {} THEN <<>>
    ELSE LET ip == Min(pings)
         IN  PingA(ts[ip], n, ip, q, d) \o PingsA(ts, n, pings \ {ip}, q, d)

\* the working copy a block iteration of detect_esp3 ends with: masked,
\* and trimmed unless no row is valid
BlockTSA(d, nrtot, pings, sv) ==
    LET nrows == BlockRows(d, nrtot, pings)
        m     == MaskedTS(d, pings, sv, nrows)
    IN  IF ValidRows(m, nrows) = {} THEN m ELSE TrimTS(m, nrows)

\* TS.shape[0]
Rows(ts) == IF DOMAIN ts = {} THEN 0 ELSE Cardinality(DOMAIN ts[Min(DOMAIN ts)])

\* the detections a block iteration of detect_esp3 appends, in order, read
\* from its working copy ts: none when no row is valid
DetectA(ts, pings, q, d) ==
    IF ValidRows(ts, Rows(ts)) = {} THEN <<>>
    ELSE PingsA(ts, Rows(ts), pings, q, d)

\* one block iteration of detect_esp3 on the source columns sv
BlockA(q, d, nrtot, pings, sv) == DetectA(BlockTSA(d, nrtot, pings, sv), pings, q, d)

----------------------------------------------------------------------------
(* detect_matecho: one iteration of the block loop *)

\* R = (Depth - (TD + heave)).clip(min=0)
Range(d, ip, i) ==
    IF ~IsFinite(d.heave[ip]) THEN NaN
    ELSE Max2(Depth(ip, i) - (d.TD + d.heave[ip]), 0)

\* ts_range = maximum(dstep, (arange(nb_samples_tot) - ind_range0) * dstep)
ts_range(q, i) == Max2(dstep, (i - q.tvg_start_sample) * dstep)

\* sv2ts = 10 log10(c T / 2) + psi_two_way + 2 Sa_correction + 2 Sa_EK80_nominal
sv2ts(q) ==
    Log10x10((q.SoundSpeed * q.pulse_length) \div 2000)
        + q.psi_two_way + 2 * q.Sa_correction + 2 * q.Sa_EK80_nominal

\* tsu = Sv_blk + 20 log10(r_eff) + sv2ts, r_eff = maximum(tsr_blk, 1e-6)
Tsu(q, sval, i) == sval + Log10x20(Max2(ts_range(q, i), 1)) + sv2ts(q)

\* one_way_comp: the dataset holds no angle variables, comp = 0
one_way_comp(d, ip, i) == d.comp

\* tsu with the under-bottom cells set to NaN
TsuBlk(q, d, pings, sv, nrows) ==
    AsColumns([ip \in pings |-> AsArray([i \in 0..(nrows - 1) |->
        IF UnderBottom(d, ip, i) THEN NaN ELSE Tsu(q, sv[ip][i], i)], nrows)], pings)

\* ts = tsu + one_way_comp with the under-bottom cells set to NaN, from the
\* masked tsu (NaN + x is NaN)
TsBlk(d, u) ==
    AsColumns([ip \in DOMAIN u |-> AsArray([i \in 0..(Rows(u) - 1) |->
        IF ~IsFinite(u[ip][i]) THEN NaN
        ELSE u[ip][i] + one_way_comp(d, ip, i)], Rows(u))], DOMAIN u)

\* Plike = tsu - 40 log10(r_eff) - 2 alpha tsr with the under-bottom cells
\* set to NaN, from the masked tsu
PlikeBlk(q, d, u) ==
    AsColumns([ip \in DOMAIN u |-> AsArray([i \in 0..(Rows(u) - 1) |->
        IF ~IsFinite(u[ip][i]) THEN NaN
        ELSE u[ip][i] - Log10x40(Max2(ts_range(q, i), 1))
                 - (2 * d.alpha * ts_range(q, i)) \div 1000], Rows(u))], DOMAIN u)

\* loc: local maxima of Plike among finite samples past the first dec_tir
LocB(zP, n) ==
    {k \in 1..(n - 2) :
        /\ IsFinite(zP[k]) /\ k >= dec_tir
        /\ IsFinite(zP[k - 1]) /\ zP[k] > zP[k - 1]
        /\ IsFinite(zP[k + 1]) /\ zP[k] >= zP[k + 1]}

\* while i0 > 0 and isfinite(zP[i0 - 1]) and zP[i0 - 1] >= base - 6.0
RECURSIVE WidthLeft(_, _, _)
WidthLeft(zP, i0, base) ==
    IF i0 > 0 /\ IsFinite(zP[i0 - 1]) /\ zP[i0 - 1] >= base - 6
    THEN WidthLeft(zP, i0 - 1, base)
    ELSE i0

\* while i1 + 1 < nP and isfinite(zP[i1 + 1]) and zP[i1 + 1] >= base - 6.0
RECURSIVE WidthRight(_, _, _, _)
WidthRight(zP, n, i1, base) ==
    IF i1 + 1 < n /\ IsFinite(zP[i1 + 1]) /\ zP[i1 + 1] >= base - 6
    THEN WidthRight(zP, n, i1 + 1, base)
    ELSE i1

\* the gate left out
ThrOkB_Off(zts, thr) == TRUE

\* threshold gate of detect_matecho: TRUE when the candidate goes on
ThrOkB(zts, thr) == ~(~IsFinite(zts) \/ zts <= thr)

\* the gate without its lower bound
PlenOkB_NoMin(plen, q) == ~(plen > Round(NechP(q) * q.MaxEchoLength, 10))

\* echo-length gate of detect_matecho: TRUE when the candidate goes on
PlenOkB(plen, q) ==
    ~(plen < Round(NechP(q) * q.MinEchoLength, 10)
        \/ plen > Round(NechP(q) * q.MaxEchoLength, 10))

\* spacing gate of detect_matecho: TRUE when the candidate goes on
SpaceOkB(k, keep, q) ==
    ~(keep # {}
        /\ Min({IF k >= kk THEN k - kk ELSE kk - k : kk \in keep})
              < Round(q.MinEchoSpace * NechP(q), 10))

\* depth-band gate of detect_matecho: TRUE when the candidate goes on
DepthOkB(d, ip, k, q) ==
    /\ IsFinite(Range(d, ip, k))
    /\ q.MinEchoDepthM <= Range(d, ip, k) + d.TD + d.heave[ip]
    /\ Range(d, ip, k) + d.TD + d.heave[ip] <= q.MaxEchoDepthM

\* TRUE when candidate k passes every gate and is appended to keep
KeptB(zP, zTS, zTSU, n, ip, k, keep, q, d) ==
    /\ ThrOkB(zTS[k], q.TS_threshold)
    /\ ~(zTS[k] - zTSU[k] > 2 * q.MaxAngleOneWayCompression)
    /\ PlenOkB(WidthRight(zP, n, k, zP[k]) - WidthLeft(zP, k, zP[k]) + 1, q)
    /\ SpaceOkB(k, keep, q)
    /\ DepthOkB(d, ip, k, q)

\* the "Save detection" lines for a kept candidate k of ping ip
SaveB(zP, zTS, zTSU, n, ip, k, q, d) ==
    LET i0 == WidthLeft(zP, k, zP[k])
        i1 == WidthRight(zP, n, k, zP[k])
        plen == i1 - i0 + 1
        r_seg == {Range(d, ip, i) : i \in i0..i1} \ {NaN}
        r_peak == Range(d, ip, k)
    IN  IF r_seg = {} THEN <<>>
        ELSE << [TS_comp |-> zTS[k], TS_uncomp |-> zTSU[k],
                 Target_range |-> r_peak,
                 Target_range_disp |-> r_peak + QuarterPulse(q),
                 Target_range_min |-> Min(r_seg), Target_range_max |-> Max(r_seg),
                 idx_r |-> k, Ping_number |-> ip, Time |-> times(ip),
                 idx_target_lin |-> LinIdx(d, ip, k, n),
                 pulse_env_before_lin |-> k - i0, pulse_env_after_lin |-> i1 - k,
                 PulseLength_Normalized_PLDL |-> <<plen, NechP(q)>>,
                 Transmitted_pulse_length |-> plen,
                 StandDev_Angles_Minor_Axis |-> NaN,
                 StandDev_Angles_Major_Axis |-> NaN,
                 Angle_minor_axis |-> NaN, Angle_major_axis |-> NaN,
                 Heave |-> d.heave[ip], Roll |-> d.roll[ip],
                 Pitch |-> d.pitch[ip], Heading |-> d.heading[ip],
                 Dist |-> d.dist[ip]] >>

\* "for k in loc": candidates left to scan, keep so far
RECURSIVE LoopB(_, _, _, _, _, _, _, _, _)
LoopB(zP, zTS, zTSU, n, ip, loc, keep, q, d) ==
    IF loc = {} THEN <<>>
    ELSE LET k == Min(loc)
         IN  IF KeptB(zP, zTS, zTSU, n, ip, k, keep, q, d)
             THEN SaveB(zP, zTS, zTSU, n, ip, k, q, d)
                    \o LoopB(zP, zTS, zTSU, n, ip, loc \ {k}, keep \cup {k}, q, d)
             ELSE LoopB(zP, zTS, zTSU, n, ip, loc \ {k}, keep, q, d)

\* the body of "for j in range(Plike.shape[1])" for ping ip
PingB(zP, zTS, zTSU, n, ip, q, d) ==
    IF ~(\E i \in 0..(n - 1) : IsFinite(zP[i])) THEN <<>>
    ELSE LoopB(zP, zTS, zTSU, n, ip, LocB(zP, n), {}, q, d)

RECURSIVE PingsB(_, _, _, _, _, _, _)
PingsB(plike, ts, u, n, pings, q, d) ==
    IF pings = {} THEN <<>>
    ELSE LET ip == Min(pings)
         IN  PingB(plike[ip], ts[ip], u[ip], n, ip, q, d)
                \o PingsB(plike, ts, u, n, pings \ {ip}, q, d)

\* one block iteration of detect_matecho on the source columns sv: the
\* detections it appends, in order
BlockB(q, d, nrtot, pings, sv) ==
    LET u == TsuBlk(q, d, pings, sv, BlockRows(d, nrtot, pings))
    IN  PingsB(PlikeBlk(q, d, u), TsBlk(d, u), u, Rows(u), pings, q, d)

----------------------------------------------------------------------------
(* Inputs: parameter sets and datasets the entry points are called with *)

\* block_len values (in halves of a cell) giving one ping per block, an
\* intermediate block size and all pings in one block
BlockLens(ns) == {1, 2 * ns + 1, DEFAULTS.block_len}

BaseA == [DEFAULTS EXCEPT !.PLDL = 30, !.Np = 3]

\* parameter sets detect_esp3 accepts
ValidParamsA ==
    {[BaseA EXCEPT !.PLDL = pl, !.MinNormPL = mm[1], !.MaxNormPL = mm[2], !.Np = n] :
        pl \in {6, 30}, mm \in {<<7, 15>>, <<5, 15>>, <<0, 0>>, <<7, 3>>}, n \in {3, 4}}
    \cup {[BaseA EXCEPT !.Np = n, !.pulse_length = t] : n \in {0, 2, 3}, t \in {1000, 3000, 4000}}
    \cup {[BaseA EXCEPT !.TS_threshold = th] : th \in {-120, -60, -20}}
    \cup {[BaseA EXCEPT !.MinNormPL = 5, !.block_len = b] : b \in BlockLens(NumSamplesA)}

\* parameter sets with one value out of range
InvalidParamsA ==
    {[BaseA EXCEPT !.DataType = "FM"]}
    \cup {[BaseA EXCEPT !.TS_threshold = th] : th \in {-121, -19}}
    \cup {[BaseA EXCEPT !.PLDL = pl] : pl \in {0, 31}}
    \cup {[BaseA EXCEPT !.MinNormPL = m] : m \in {-1, 101}}
    \cup {[BaseA EXCEPT !.MaxNormPL = m] : m \in {-1, 101}}
    \cup {[BaseA EXCEPT !.block_len = b] : b \in {0, -1}}

BaseB == MATECHO_DEFAULTS

\* parameter sets for detect_matecho with every value in range
ValidParamsB ==
    {[BaseB EXCEPT !.MinEchoLength = ml[1], !.MaxEchoLength = ml[2], !.MinEchoSpace = sp] :
        ml \in {<<8, 18>>, <<3, 18>>, <<5, 18>>, <<3, 3>>}, sp \in {10, 5, 0}}
    \cup {[BaseB EXCEPT !.MinEchoDepthM = m] : m \in {3000, 3400}}
    \cup {[BaseB EXCEPT !.pulse_length = 2000]}
    \cup {[BaseB EXCEPT !.TS_threshold = th] : th \in {-120, -20}}
    \cup {[BaseB EXCEPT !.MinEchoLength = 3, !.MinEchoSpace = 5, !.block_len = b] :
            b \in BlockLens(NumSamplesB)}

\* parameter sets for detect_matecho with one value out of range
InvalidParamsB ==
    {[BaseB EXCEPT !.TS_threshold = th] : th \in {-121, -19}}
    \cup {[BaseB EXCEPT !.block_len = b] : b \in {0, -1, -60}}

\* datasets: ns samples per ping, 1..MaxPings pings, an optional bottom
\* line, no navigation, absorption, transducer depth or angle variables.
\* One ping (focus) has its own bottom depth and any source column of the
\* rich set; the other pings share a bottom depth and a source column
Datasets(ns, plain) ==
    {[nb_pings_tot |-> n, nb_samples_tot |-> ns, hasBottom |-> hb,
      bottom |-> [ip \in 0..(n - 1) |-> IF ip = f THEN bb[1] ELSE bb[2]],
      heave_src |-> NoField,
      heave |-> fallback(pull_nav(NoField, n), n), roll |-> [ip \in 0..(n - 1) |-> 0],
      pitch |-> [ip \in 0..(n - 1) |-> 0], heading |-> [ip \in 0..(n - 1) |-> 0],
      dist |-> [ip \in 0..(n - 1) |-> 0], TD |-> 0, alpha |-> 0, comp |-> 0,
      focus |-> f, others |-> o] :
        n \in 1..MaxPings,
        hb \in BOOLEAN,
        bb \in {Depth(0, 0), Depth(0, 1), Depth(0, ns - 2), NaN} \X {Depth(0, ns - 2), NaN},
        f \in 0..(MaxPings - 1),
        o \in plain}

WellFormed(d) ==
    /\ d.focus \in {0, d.nb_pings_tot - 1}
    /\ ~d.hasBottom => \A ip \in DOMAIN d.bottom : d.bottom[ip] = NaN

\* heave fields: one sample 0, 500 or 501 ms after the first ping, two
\* samples around the first ping, and an array without a time dimension
HeaveSources ==
    {[kind |-> "timed", samples |-> <<[t |-> off, v |-> 100]>>] : off \in {0, 500, 501}}
    \cup {[kind |-> "timed", samples |-> <<[t |-> -200, v |-> 100], [t |-> 300, v |-> 200]>>],
          [kind |-> "plain", samples |-> <<[t |-> 0, v |-> 100], [t |-> 0, v |-> 100]>>]}

\* the dataset d with the heave field src
WithHeave(d, src) ==
    [d EXCEPT !.heave_src = src,
              !.heave = fallback(pull_nav(src, d.nb_pings_tot), d.nb_pings_tot)]

\* the datasets with a heave field: no bottom line, the first ping in focus
NavDatasets(ns, peak) ==
    {WithHeave(d, src) :
        d \in {x \in Datasets(ns, {peak}) : WellFormed(x) /\ ~x.hasBottom /\ x.focus = 0},
        src \in HeaveSources}

\* a column equal to bg except at up to two of the positions pos, where it
\* takes a value of vals
Bumped(ns, bg, pos, vals) ==
    LET flat == [i \in 0..(ns - 1) |-> bg]
    IN  {flat}
        \cup {[flat EXCEPT ![a] = v] : a \in pos, v \in vals}
        \cup {[flat EXCEPT ![ab[1]] = v, ![ab[2]] = w] :
                ab \in {x \in pos \X pos : x[1] < x[2]}, v \in vals, w \in vals}

AllSentinel(ns) == [i \in 0..(ns - 1) |-> Sentinel]

\* source columns of the ping in focus and of the other pings, detect_esp3
RichA(ns) == Bumped(ns, -90, 0..(ns - 1), {-55, -30}) \cup {AllSentinel(ns)}
PlainPeakA(ns) ==
    [i \in 0..(ns - 1) |-> IF i = 2 THEN -30 ELSE IF i \in {1, 3} THEN -55 ELSE -90]
PlainA(ns) == {PlainPeakA(ns), AllSentinel(ns)}

\* source columns of the ping in focus and of the other pings, detect_matecho
RichB(ns) ==
    Bumped(ns, -90, (dec_tir - 1)..(ns - 1), {-33, -30}) \cup {AllSentinel(ns)}
PlainPeakB(ns) ==
    [i \in 0..(ns - 1) |-> IF i = dec_tir + 1 THEN -30
                           ELSE IF i \in {dec_tir, dec_tir + 2} THEN -33 ELSE -90]
PlainB(ns) == {PlainPeakB(ns), AllSentinel(ns)}

\* the source columns a block can hold: Sv.isel(ping_time=idx_pings)
BlockColumns(d, pings, rich) ==
    IF d.focus \in pings
    THEN {[ip \in pings |-> IF ip = d.focus THEN c ELSE d.others] : c \in rich}
    ELSE {[ip \in pings |-> d.others]}

----------------------------------------------------------------------------
(* The two entry points as state machines *)

Pings(d) == 0..(d.nb_pings_tot - 1)

NoPrep == [nrtot |-> 0, block_size |-> 0, num_ite |-> 0]

NoBlock == <<>>

InitCommon ==
    /\ pc = "start"
    /\ prep = NoPrep
    /\ ui = 0
    /\ Sv = NoBlock
    /\ TS = NoBlock
    /\ tsu = NoBlock
    /\ Plike = NoBlock
    /\ out = init_st_struct
    /\ nb_valid_targets = 0
    /\ ref = init_st_struct
    /\ visited = <<>>

\* every dataset with the base parameters and each block_len, every
\* parameter set with the datasets of one or two pings and no bottom line,
\* and the datasets with a heave field with the base parameters
InitA ==
    /\ variant = "esp3"
    /\ \/ /\ ds \in {d \in Datasets(NumSamplesA, PlainA(NumSamplesA)) : WellFormed(d)}
          /\ \/ p \in {[BaseA EXCEPT !.block_len = b] : b \in BlockLens(NumSamplesA)}
             \/ /\ ~ds.hasBottom /\ ds.nb_pings_tot <= 2
                /\ ds.others = PlainPeakA(NumSamplesA)
                /\ p \in ValidParamsA \cup InvalidParamsA
       \/ /\ ds \in NavDatasets(NumSamplesA, PlainPeakA(NumSamplesA))
          /\ p \in {[BaseA EXCEPT !.block_len = b] : b \in BlockLens(NumSamplesA)}
    /\ InitCommon

InitB ==
    /\ variant = "matecho"
    /\ \/ /\ ds \in {d \in Datasets(NumSamplesB, PlainB(NumSamplesB)) : WellFormed(d)}
          /\ \/ p \in {[BaseB EXCEPT !.block_len = b] : b \in BlockLens(NumSamplesB)}
             \/ /\ ~ds.hasBottom /\ ds.nb_pings_tot <= 2
                /\ ds.others = PlainPeakB(NumSamplesB)
                /\ p \in ValidParamsB \cup InvalidParamsB
       \/ /\ ds \in NavDatasets(NumSamplesB, PlainPeakB(NumSamplesB))
          /\ p \in {[BaseB EXCEPT !.block_len = b] : b \in BlockLens(NumSamplesB)}
    /\ InitCommon

Init == InitA \/ InitB

\* detect_esp3, argument parsing: _validate_params passes
EnterEsp3 ==
    /\ pc = "start" /\ variant = "esp3"
    /\ validate_params(p)
    /\ pc' = "prepare"
    /\ UNCHANGED <<variant, p, ds, prep, ui, Sv, TS, tsu, Plike, out, nb_valid_targets, ref, visited>>

\* detect_esp3, argument parsing: _validate_params raises ValueError
RejectEsp3 ==
    /\ pc = "start" /\ variant = "esp3"
    /\ ~validate_params(p)
    /\ pc' = "error"
    /\ UNCHANGED <<variant, p, ds, prep, ui, Sv, TS, tsu, Plike, out, nb_valid_targets, ref, visited>>

\* detect_matecho, argument parsing: the defaults are merged, nothing is
\* validated
EnterMatecho ==
    /\ pc = "start" /\ variant = "matecho"
    /\ pc' = "prepare"
    /\ UNCHANGED <<variant, p, ds, prep, ui, Sv, TS, tsu, Plike, out, nb_valid_targets, ref, visited>>

\* detect_esp3, sections 1 to 7: index domains, block sizing, constants
PrepareEsp3 ==
    /\ pc = "prepare" /\ variant = "esp3"
    /\ prep' = [nrtot |-> IdxRTotSize(ds), block_size |-> BlockSize(p, ds),
                num_ite |-> NumIteA(p, ds)]
    /\ pc' = "loop"
    /\ UNCHANGED <<variant, p, ds, ui, Sv, TS, tsu, Plike, out, nb_valid_targets, ref, visited>>

\* detect_matecho up to the block loop
PrepareMatecho ==
    /\ pc = "prepare" /\ variant = "matecho"
    /\ prep' = [nrtot |-> IdxRTotSize(ds), block_size |-> BlockSize(p, ds),
                num_ite |-> NumIteB(p, ds)]
    /\ pc' = "loop"
    /\ UNCHANGED <<variant, p, ds, ui, Sv, TS, tsu, Plike, out, nb_valid_targets, ref, visited>>

\* start and stop of iteration u
BlockStart(u) == u * prep.block_size

\* stop without the clamp to the number of pings
BlockStop_NoClamp(u) == (u + 1) * prep.block_size

BlockStop(u) == Min2((u + 1) * prep.block_size, ds.nb_pings_tot)

\* idx_pings of iteration u
IdxPings(u) == PySlice(ds.nb_pings_tot, BlockStart(u), BlockStop(u))

\* the detections of the pings of a block when each ping is a block of its own
RECURSIVE Solo(_, _, _)
Solo(v, pings, sv) ==
    IF pings = {} THEN <<>>
    ELSE LET ip == Min(pings)
             one == [x \in {ip} |-> sv[ip]]
         IN  (IF v = "esp3" THEN BlockA(p, ds, prep.nrtot, {ip}, one)
                            ELSE BlockB(p, ds, prep.nrtot, {ip}, one))
                \o Solo(v, pings \ {ip}, sv)

\* the masking written through to the frame
SourceAfterMask_Alias(sv, work) == work

\* the columns of the frame after the mask is applied to the working matrix
\* of the block: the working matrix is a copy (.values.copy() in detect_esp3,
\* the arrays computed from Sv_blk in detect_matecho), so the frame keeps sv
SourceAfterMask(sv, work) == sv

\* detect_esp3: one iteration of "for ui in range(num_ite)"
BlockEsp3 ==
    /\ pc = "loop" /\ variant = "esp3"
    /\ ui < prep.num_ite
    /\ \E sv \in BlockColumns(ds, IdxPings(ui), RichA(ds.nb_samples_tot)) :
        /\ TS' = BlockTSA(ds, prep.nrtot, IdxPings(ui), sv)
        /\ Sv' = SourceAfterMask(sv, TS')
        /\ out' = AppendAll(out, DetectA(TS', IdxPings(ui), p, ds))
        /\ ref' = IF prep.block_size = 1 THEN out'
                  ELSE AppendAll(ref, Solo("esp3", IdxPings(ui), sv))
    /\ UNCHANGED <<tsu, Plike>>
    /\ visited' = Append(visited, <<BlockStart(ui), BlockStop(ui)>>)
    /\ ui' = ui + 1
    /\ UNCHANGED <<variant, p, ds, pc, prep, nb_valid_targets>>

\* detect_matecho: one iteration of "for ui in range(num_ite)"
BlockMatecho ==
    /\ pc = "loop" /\ variant = "matecho"
    /\ ui < prep.num_ite
    /\ \E sv \in BlockColumns(ds, IdxPings(ui), RichB(ds.nb_samples_tot)) :
        /\ tsu' = TsuBlk(p, ds, IdxPings(ui), sv, BlockRows(ds, prep.nrtot, IdxPings(ui)))
        /\ TS' = TsBlk(ds, tsu')
        /\ Sv' = SourceAfterMask(sv, TS')
        /\ Plike' = PlikeBlk(p, ds, tsu')
        /\ out' = AppendAll(out, PingsB(Plike', TS', tsu', Rows(tsu'), IdxPings(ui), p, ds))
        /\ ref' = IF prep.block_size = 1 THEN out'
                  ELSE AppendAll(ref, Solo("matecho", IdxPings(ui), sv))
    /\ visited' = Append(visited, <<BlockStart(ui), BlockStop(ui)>>)
    /\ ui' = ui + 1
    /\ UNCHANGED <<variant, p, ds, pc, prep, nb_valid_targets>>

\* out["nb_valid_targets"] = len(out["TS_comp"]); return out
Finalize ==
    /\ pc = "loop"
    /\ ~(ui < prep.num_ite)
    /\ nb_valid_targets' = Len(out.TS_comp)
    /\ pc' = "done"
    /\ UNCHANGED <<variant, p, ds, prep, ui, Sv, TS, tsu, Plike, out, ref, visited>>

Next ==
    \/ EnterEsp3
    \/ RejectEsp3
    \/ EnterMatecho
    \/ PrepareEsp3
    \/ PrepareMatecho
    \/ BlockEsp3
    \/ BlockMatecho
    \/ Finalize

Spec == Init /\ [][Next]_vars

----------------------------------------------------------------------------
(* Properties of the block loop and of the recorded detections *)

\* indices of the detections recorded so far
Dets == 1..Len(out.TS_comp)

\* distance between two sample indices
Dist(a, b) == IF a >= b THEN a - b ELSE b - a

\* C1: for a positive block_len the ping ranges the block loop visits are
\* non-empty, each starts where the previous one stopped, the first starts
\* at 0 and the last stops at the number of pings; the pings a block holds
\* are exactly those of its range
C1_BlocksPartitionPings ==
    p.block_len > 0 =>
        /\ \A i \in 1..Len(visited) :
              /\ visited[i][1] < visited[i][2]
              /\ visited[i][1] = (IF i = 1 THEN 0 ELSE visited[i - 1][2])
        /\ Len(visited) >= 1 =>
              DOMAIN Sv = visited[Len(visited)][1]..(visited[Len(visited)][2] - 1)
        /\ pc = "done" =>
              /\ Len(visited) >= 1
              /\ visited[Len(visited)][2] = ds.nb_pings_tot

\* three pings visited as a block of two and a shorter last block
C1_Witness ==
    /\ pc = "done"
    /\ p.block_len > 0
    /\ visited = << <<0, 2>>, <<2, 3>> >>

\* C2 as stated: every detection of detect_esp3 has a pulse length between
\* round(Np * MinNormPL) and ceil(Np * MaxNormPL)
C2_RoundedBounds ==
    variant = "esp3" =>
        \A i \in Dets :
            /\ Round(NpA(p) * p.MinNormPL, 10) <= out.Transmitted_pulse_length[i]
            /\ out.Transmitted_pulse_length[i] <= Ceil(NpA(p) * p.MaxNormPL, 10)

\* C2 amended: every detection of detect_esp3 has a pulse length
\* 1 + left + right between max(1, floor(Np * MinNormPL)) and
\* max(1, ceil(Np * MaxNormPL))
C2_PulseLengthWithinBounds ==
    variant = "esp3" =>
        \A i \in Dets :
            /\ out.Transmitted_pulse_length[i]
                   = 1 + out.pulse_env_before_lin[i] + out.pulse_env_after_lin[i]
            /\ out.Transmitted_pulse_length[i]
                   >= Max2(1, (NpA(p) * p.MinNormPL) \div 10)
            /\ out.Transmitted_pulse_length[i]
                   <= Max2(1, Ceil(NpA(p) * p.MaxNormPL, 10))

\* a detection of detect_esp3 shorter than round(Np * MinNormPL)
C2_Witness ==
    /\ variant = "esp3"
    /\ \E i \in Dets :
          out.Transmitted_pulse_length[i] < Round(NpA(p) * p.MinNormPL, 10)

C4_MinimumSpacing ==
    \A i \in Dets : \A j \in Dets :
        (i # j /\ out.Ping_number[i] = out.Ping_number[j]) =>
            Dist(out.idx_r[i], out.idx_r[j])
                >= (IF variant = "esp3" THEN NpA(p)
                    ELSE Round(p.MinEchoSpace * NechP(p), 10))

\* two detections of one ping exactly Np samples apart
C4_Witness ==
    /\ variant = "esp3"
    /\ \E i \in Dets : \E j \in Dets :
          /\ out.Ping_number[i] = out.Ping_number[j]
          /\ out.idx_r[j] - out.idx_r[i] = NpA(p)

\* C5: every detection has TS_comp > TS_threshold; in detect_esp3 TS_comp
\* is the peak value plus the time-varied gain at the peak and the
\* effective range at the peak is positive
C5_AboveThreshold ==
    \A i \in Dets :
        /\ out.TS_comp[i] > p.TS_threshold
        /\ variant = "esp3" =>
              /\ out.Target_range[i] - QuarterPulse(p) > 0
              /\ out.Ping_number[i] \in DOMAIN TS =>
                    out.TS_comp[i] = TS[out.Ping_number[i]][out.idx_r[i]]
                        + TVGPeak(ds, out.Target_range[i] - QuarterPulse(p))

\* a peak of detect_esp3 above the threshold, two samples long, at a
\* positive effective range, that the gain brings under the threshold and
\* that is not recorded
C5_Witness ==
    /\ variant = "esp3" /\ pc = "done"
    /\ ds.nb_pings_tot = 1
    /\ p.Np = 3 /\ p.pulse_length = 3000
    /\ TS[0][0] = -55 /\ TS[0][1] = -30 /\ TS[0][2] = -90
    /\ TS[0][1] > p.TS_threshold
    /\ Depth(0, 1) - QuarterPulse(p) > 0
    /\ TS[0][1] + TVGPeak(ds, Depth(0, 1) - QuarterPulse(p)) <= p.TS_threshold
    /\ \A i \in Dets : out.idx_r[i] # 1

\* C6: with a bottom line no detection of a ping is at or past the first
\* sample of that ping whose depth is at least the bottom depth of the ping
C6_NothingUnderBottom ==
    ds.hasBottom =>
        \A i \in Dets :
            \A j \in 0..out.idx_r[i] :
                ~(/\ IsFinite(ds.bottom[out.Ping_number[i]])
                  /\ Depth(out.Ping_number[i], j) >= ds.bottom[out.Ping_number[i]])

\* a block of several pings where the ping in focus has a strong peak at
\* its bottom and another ping, with no bottom crossing, has a detection
C6_Witness ==
    /\ ds.hasBottom
    /\ ds.focus \in DOMAIN Sv
    /\ IsFinite(ds.bottom[ds.focus])
    /\ \E j \in DOMAIN Sv[ds.focus] :
          /\ Depth(ds.focus, j) >= ds.bottom[ds.focus]
          /\ Sv[ds.focus][j] = -30
    /\ \E i \in Dets :
          /\ out.Ping_number[i] \in DOMAIN Sv
          /\ out.Ping_number[i] # ds.focus
          /\ ~IsFinite(ds.bottom[out.Ping_number[i]])

\* the configurations C7 names: pulse type not CW, TS_threshold outside
\* [-120, -20], PLDL outside [1, 30], MinNormPL or MaxNormPL outside
\* [0, 10], block_len <= 0
InvalidConfig(q) ==
    \/ "DataType" \in DOMAIN q /\ q.DataType # "CW"
    \/ q.TS_threshold < -120 \/ q.TS_threshold > -20
    \/ "PLDL" \in DOMAIN q /\ (q.PLDL < 1 \/ q.PLDL > 30)
    \/ "MinNormPL" \in DOMAIN q /\ (q.MinNormPL < 0 \/ q.MinNormPL > 100)
    \/ "MaxNormPL" \in DOMAIN q /\ (q.MaxNormPL < 0 \/ q.MaxNormPL > 100)
    \/ q.block_len <= 0

\* C7: with such a configuration either entry point raises before the
\* block loop is prepared and records no detection
C7_InvalidConfigRejected ==
    InvalidConfig(p) =>
        /\ pc \in {"start", "error"}
        /\ out = init_st_struct
        /\ visited = <<>>

\* the per-detection fields C8 names
PerDetectionFields ==
    {"TS_comp", "TS_uncomp", "Target_range", "Target_range_min",
     "Target_range_max", "idx_r", "Ping_number", "Time", "idx_target_lin",
     "pulse_env_before_lin", "pulse_env_after_lin",
     "PulseLength_Normalized_PLDL", "Transmitted_pulse_length",
     "Angle_minor_axis", "Angle_major_axis",
     "Heave", "Roll", "Pitch", "Heading", "Dist"}

\* C8: when an entry point has returned, every per-detection field holds
\* nb_valid_targets entries
C8_FieldsHaveOneEntryPerDetection ==
    pc = "done" =>
        \A f \in PerDetectionFields : Len(out[f]) = nb_valid_targets

\* C9: along the recorded sequence the ping number never decreases, within
\* a ping the sample index increases, idx_target_lin increases; and
\* nb_valid_targets keeps its initial 0 until the loop has ended, when it
\* is the number of recorded detections
C9_RecordedInOrder ==
    /\ \A i \in Dets : i + 1 \in Dets =>
          /\ out.Ping_number[i] <= out.Ping_number[i + 1]
          /\ out.Ping_number[i] = out.Ping_number[i + 1] =>
                out.idx_r[i] < out.idx_r[i + 1]
          /\ out.idx_target_lin[i] < out.idx_target_lin[i + 1]
    /\ \A i \in Dets :
          out.idx_target_lin[i]
              = out.Ping_number[i] * ds.nb_samples_tot + out.idx_r[i]
    /\ pc # "done" => nb_valid_targets = 0
    /\ pc = "done" => nb_valid_targets = Len(out.TS_comp)

\* a finished run of several blocks with detections in two pings, two of
\* them in one ping
C9_Witness ==
    /\ pc = "done"
    /\ Len(visited) >= 2
    /\ nb_valid_targets >= 3
    /\ \E i \in Dets : i + 1 \in Dets /\ out.Ping_number[i] = out.Ping_number[i + 1]
    /\ \E i \in Dets : i + 1 \in Dets /\ out.Ping_number[i] < out.Ping_number[i + 1]

\* C10: for a positive block_len (and Np given to detect_esp3) the
\* recorded sequence is the one recorded when every ping is a block of
\* its own
C10_SameForEveryBlockLen ==
    (/\ pc = "done"
     /\ p.block_len > 0
     /\ variant = "esp3" => p.Np > 2) => out = ref

\* C11: once a detector has accepted its configuration, block_size lies
\* between 1 and the number of pings and num_ite is
\* ceil(number of pings / block_size)
C11_BlockSizeWithinPings ==
    pc \in {"loop", "done"} =>
        /\ 1 <= prep.block_size
        /\ prep.block_size <= ds.nb_pings_tot
        /\ prep.num_ite = Ceil(ds.nb_pings_tot, prep.block_size)

\* a cell of the working matrix of the block at hand that is unmasked and
\* above TS_threshold
AboveThreshold(ip, i) ==
    /\ IsFinite(TS[ip][i])
    /\ TS[ip][i] > Sentinel
    /\ TS[ip][i] > p.TS_threshold

\* C12: a ping of the block at hand whose column has no cell that is both
\* unmasked and above TS_threshold has no detection, and a run whose every
\* sample is the mask sentinel ends with no detection and
\* nb_valid_targets = 0
C12_NothingWithoutCellAboveThreshold ==
    /\ \A ip \in DOMAIN TS :
        (\A i \in DOMAIN TS[ip] : ~AboveThreshold(ip, i)) =>
            \A n \in Dets : out.Ping_number[n] # ip
    /\ (pc = "done" /\ DOMAIN Sv = Pings(ds)
            /\ \A ip \in Pings(ds) : Sv[ip] = AllSentinel(ds.nb_samples_tot)) =>
        (out = init_st_struct /\ nb_valid_targets = 0)

\* a finished run of two pings in one block, every sample the sentinel, next
\* to nothing recorded
C12_Witness ==
    /\ pc = "done"
    /\ ds.nb_pings_tot = 2 /\ DOMAIN Sv = Pings(ds) /\ DOMAIN TS = Pings(ds)
    /\ \A ip \in Pings(ds) : Sv[ip] = AllSentinel(ds.nb_samples_tot)
    /\ \A ip \in Pings(ds) : \A i \in DOMAIN TS[ip] : ~AboveThreshold(ip, i)
    /\ nb_valid_targets = 0

\* the source columns of detect_esp3 and of detect_matecho
Rich == IF variant = "esp3" THEN RichA(ds.nb_samples_tot) ELSE RichB(ds.nb_samples_tot)

Resolved(ip) ==
    \E j \in DOMAIN ds.heave_src.samples :
        /\ ds.heave_src.samples[j].t - PingTimeMs(ip) <= Tolerance
        /\ PingTimeMs(ip) - ds.heave_src.samples[j].t <= Tolerance

\* C14: the heave of a ping is the value of the nearest sample of the field
\* when one lies within 500 ms of the ping, and zero when none does or when
\* the dataset has no heave field, in every run past its preparation
C14_UnresolvedNavigationIsZero ==
    pc \in {"loop", "done"} => \A ip \in Pings(ds) :
        /\ ds.heave_src.kind = "absent" => ds.heave[ip] = 0
        /\ ds.heave_src.kind = "timed" =>
            IF Resolved(ip)
            THEN \E j \in DOMAIN ds.heave_src.samples :
                    /\ ds.heave[ip] = ds.heave_src.samples[j].v
                    /\ \A h \in DOMAIN ds.heave_src.samples :
                        Dist(ds.heave_src.samples[j].t, PingTimeMs(ip))
                            <= Dist(ds.heave_src.samples[h].t, PingTimeMs(ip))
            ELSE ds.heave[ip] = 0

\* the candidates of ping ip of the block at hand, as the claim words them
Candidates(ip) ==
    {i \in 1..(Rows(TS) - 2) :
        /\ TS[ip][i] > Sentinel
        /\ TS[ip][i] > TS[ip][i - 1]
        /\ TS[ip][i] >= TS[ip][i + 1]}

\* the candidates the minimum-separation scan keeps: a candidate is kept
\* exactly when every candidate kept before it lies at least Np samples back
Kept(ip) ==
    CHOOSE K \in SUBSET Candidates(ip) :
        \A k \in Candidates(ip) :
            k \in K <=> \A j \in K : j < k => k - j >= NpA(p)

\* the sample indices recorded for ping ip
Recorded(ip) == {out.idx_r[n] : n \in {m \in Dets : out.Ping_number[m] = ip}}

\* C15: in detect_esp3 the samples recorded for a ping of the block at hand
\* are the kept candidates that pass the screening by threshold and pulse
\* shape, the kept candidates being chosen among the local maxima by the
\* left-to-right minimum-separation scan whatever their level
C15_CandidatesAndSeparation ==
    (variant = "esp3" /\ pc \in {"loop", "done"}) =>
        \A ip \in DOMAIN TS :
            Recorded(ip) =
                IF \A jp \in DOMAIN TS : \A i \in DOMAIN TS[jp] : TS[jp][i] = Sentinel
                THEN {}
                ELSE {k \in Kept(ip) : ScreenA(TS[ip], Rows(TS), ip, k, p, ds) # <<>>}

\* a kept candidate at or under TS_threshold keeps a later candidate above
\* TS_threshold, less than Np samples after it, from being kept
C15_Witness ==
    /\ variant = "esp3" /\ pc = "done"
    /\ \E ip \in DOMAIN TS : \E k1 \in Kept(ip) : \E k2 \in Candidates(ip) \ Kept(ip) :
        /\ k1 < k2
        /\ TS[ip][k1] <= p.TS_threshold
        /\ TS[ip][k2] > p.TS_threshold
        /\ Recorded(ip) = {}

\* the detections of out for the pings of a set, as <<ping, sample, TS_comp>>
RecordedIn(pings) ==
    {<<out.Ping_number[n], out.idx_r[n], out.TS_comp[n]>> :
        n \in {m \in Dets : out.Ping_number[m] \in pings}}

\* the block at hand cannot be searched: every cell masked, or fewer than 3
\* rows
Unsearchable ==
    \/ \A ip \in DOMAIN TS : \A i \in DOMAIN TS[ip] : TS[ip][i] = Sentinel
    \/ Rows(TS) < 3

C17_IndicesOfFullFrame ==
    \A n \in Dets :
        /\ out.idx_r[n] \in 0..(ds.nb_samples_tot - 1)
        /\ out.Ping_number[n] \in Pings(ds)
        /\ out.idx_target_lin[n] = out.Ping_number[n] * ds.nb_samples_tot + out.idx_r[n]
        /\ out.Ping_number[n] \in DOMAIN Sv =>
            LET ip == out.Ping_number[n]
                k  == out.idx_r[n]
            IN  IF variant = "esp3"
                THEN /\ out.Target_range[n] = Depth(ip, k)
                     /\ out.TS_uncomp[n]
                            = Sv[ip][k] + TVGPeak(ds, Depth(ip, k) - QuarterPulse(p))
                ELSE out.TS_uncomp[n] = Tsu(p, Sv[ip][k], k)

\* a detection of detect_esp3 in a ping after the first, in a block cropped
\* to fewer rows than the frame has samples
C17_Witness ==
    /\ variant = "esp3" /\ ds.hasBottom
    /\ TS # NoBlock /\ Rows(TS) < ds.nb_samples_tot
    /\ \E n \in Dets :
        /\ out.Ping_number[n] >= 1
        /\ out.Ping_number[n] \in DOMAIN TS

\* the rows of the envelope of detection n
Envelope(n) ==
    (out.idx_r[n] - out.pulse_env_before_lin[n])..(out.idx_r[n] + out.pulse_env_after_lin[n])

\* C18: in detect_esp3 the envelope of a detection of the block at hand
\* lies within the rows of the block and holds no masked cell: no cell with
\* the sentinel, none at or under the bottom of its ping; and the widths
\* before and after the peak add up, with the peak, to
\* Transmitted_pulse_length
C18_EnvelopeHoldsNoMaskedCell ==
    variant = "esp3" =>
        \A n \in Dets :
            /\ out.pulse_env_before_lin[n] + out.pulse_env_after_lin[n] + 1
                    = out.Transmitted_pulse_length[n]
            /\ out.Ping_number[n] \in DOMAIN TS =>
                \A j \in Envelope(n) :
                    /\ j \in 0..(Rows(TS) - 1)
                    /\ IsFinite(TS[out.Ping_number[n]][j])
                    /\ TS[out.Ping_number[n]][j] > Sentinel
                    /\ ~UnderBottom(ds, out.Ping_number[n], j)

\* a detection whose envelope ends on the row before the first masked row
\* of its ping
C18_Witness ==
    /\ variant = "esp3" /\ ds.hasBottom
    /\ \E n \in Dets :
        /\ out.Ping_number[n] \in DOMAIN TS
        /\ out.idx_r[n] + out.pulse_env_after_lin[n] + 1 < Rows(TS)
        /\ TS[out.Ping_number[n]][out.idx_r[n] + out.pulse_env_after_lin[n] + 1] = Sentinel
        /\ UnderBottom(ds, out.Ping_number[n], out.idx_r[n] + out.pulse_env_after_lin[n] + 1)

====
